---- MODULE Spec2Model ----
(***************************************************************************)
(* Model of GaltonBoardSimulation (src/GaltonBoard.py): the path           *)
(* generator, the multi-ball animation scheduler, the statistics and the   *)
(* start / pause / stop / reset / slider handlers driven by the frame loop.*)
(*                                                                         *)
(* Numbers.  Python floats are kept in fixed point:                        *)
(*   - probability, the random draws and the statistics are in hundredths; *)
(*   - delay_counter is in tenths of a frame;                              *)
(*   - ball coordinates (x, y, target_x, target_y of a flight record) are   *)
(*     in tenths of a pixel; the peg and bin tables hold whole pixels,  *)
(*     as int() leaves them.                                               *)
(* The ball-count and row-count sliders and defaults are scaled down       *)
(* (BallsMin .. DefaultRows below) so that whole runs can be enumerated;   *)
(* every other number is the program's own.  The model covers the frame   *)
(* loop of run() while self.running holds; the drawing calls and the       *)
(* rendered plot surface are not part of it.                               *)
(***************************************************************************)
EXTENDS Integers, Sequences, FiniteSets, TLC

\* ---- scaled model parameters (bounds) ----
\* sliders['balls'] min / max / step and the default n_balls (program: 100, 1000, 50, 500)
BallsMin == 1
BallsMax == 10
BallsStep == 1
DefaultBalls == 5
\* sliders['rows'] min / max and the default n_rows (program: 5, 18, 12)
RowsMin == 1
RowsMax == 3
DefaultRows == 2
\* accepted slider edits per behaviour
MaxEdits == 1

\* ---- program constants ----
header_height == 60
board_width == 600
board_height == 480
board_margin == 20
board_x == 300
board_y == header_height + 40
slider_x == 40
slider_width == 200
ProbMin == 10
ProbMax == 90
DefaultProb == 50
SpeedMin == 1
SpeedMax == 100
DefaultSpeed == 6
MultiMin == 1
MultiMax == 25
DefaultMulti == 8
plot_update_interval == 10
StatsEvery == 5
SpeedCap == 30

SliderNames == {"balls", "rows", "prob", "speed", "multi"}
ButtonNames == {"run", "pause", "reset", "stop"}
None == "None"

\* ---- arithmetic helpers ----
Max(a, b) == IF a >= b THEN a ELSE b
Min(a, b) == IF a <= b THEN a ELSE b

RECURSIVE SqrtSearch(_, _, _)
SqrtSearch(n, lo, hi) ==
  IF lo >= hi THEN lo
  ELSE LET mid == (lo + hi + 1) \div 2
       IN IF mid * mid <= n THEN SqrtSearch(n, mid, hi) ELSE SqrtSearch(n, lo, mid - 1)

\* floor of the square root (math.sqrt / np.sqrt in fixed point)
ISqrt(n) == IF n <= 0 THEN 0 ELSE SqrtSearch(n, 0, Min(n, 46340))

\* a / b truncated towards zero (b > 0)
Quot(a, b) == IF a >= 0 THEN a \div b ELSE -((-a) \div b)

\* whole pixels as tenths of a pixel
Px(n) == 10 * n

\* Python round(): nearest integer to num/den, ties to even (num >= 0, den > 0)
RoundHalfEven(num, den) ==
  LET q == num \div den
      r == num % den
  IN IF 2 * r < den THEN q
     ELSE IF 2 * r > den THEN q + 1
     ELSE IF q % 2 = 0 THEN q ELSE q + 1

RECURSIVE SumSeq(_)
SumSeq(s) == IF s = <<>> THEN 0 ELSE Head(s) + SumSeq(Tail(s))

RECURSIVE SumSqSeq(_)
SumSqSeq(s) == IF s = <<>> THEN 0 ELSE Head(s) * Head(s) + SumSqSeq(Tail(s))

\* np.mean(positions), in hundredths
MeanOf(s) == IF s = <<>> THEN 0 ELSE (100 * SumSeq(s)) \div Len(s)

\* np.std(positions): population standard deviation, in hundredths
StdOf(s) ==
  IF s = <<>> THEN 0
  ELSE ISqrt(10000 * (Len(s) * SumSqSeq(s) - SumSeq(s) * SumSeq(s))) \div Len(s)


\* ---- state ----
VARIABLES
  n_balls, n_rows, probability, ball_speed, max_simultaneous_balls,
  sliders,
  ball_paths, balls_in_flight, balls_dropped, delay_counter, ball_falling,
  positions, bins_count, balls_completed, observed_mean, observed_std,
  theoretical_mean, theoretical_std, simulation_complete,
  plot_update_counter, plot_needs_update,
  peg_positions, bin_positions,
  dragging, paused, stopped,
  edits

configVars == <<n_balls, n_rows, probability, ball_speed, max_simultaneous_balls, sliders>>
geomVars == <<peg_positions, bin_positions>>
theoVars == <<theoretical_mean, theoretical_std>>
flightVars == <<ball_paths, balls_in_flight, balls_dropped, delay_counter>>
statVars == <<positions, bins_count, balls_completed, observed_mean, observed_std>>
plotVars == <<plot_update_counter, plot_needs_update>>
flagVars == <<ball_falling, simulation_complete, paused, stopped>>
vars == <<configVars, geomVars, theoVars, flightVars, statVars, plotVars, flagVars,
          dragging, edits>>

\* ---- WaypointGeometry ----
\* np.zeros(size, dtype=int)
Zeros(size) == [i \in 1..size |-> 0]

\* update_bins_array_size: the new bins_count for a row count
ResizedBinsSame(bins, rows) == bins
ResizedBins(bins, rows) ==
  LET new_size == rows + 1
      copy_size == Min(Len(bins), new_size)
  IN IF Len(bins) # new_size
     THEN [i \in 1..new_size |-> IF i <= copy_size THEN bins[i] ELSE 0]
     ELSE bins

usable_width == board_width - 2 * board_margin
usable_height == board_height - 2 * board_margin - 80

\* precalculate_positions: one peg, truncated to whole pixels by int()
PegXY(rows, row, col) ==
  LET x == board_x + board_margin
             + (usable_width * (rows + 1 - row + 2 * col)) \div (2 * (rows + 1))
      y == board_y + board_margin + (usable_height * row) \div (rows + 1) + 40
  IN << Max(board_x + board_margin, Min(x, board_x + board_width - board_margin)),
        Max(board_y + board_margin, Min(y, board_y + board_height - board_margin - 80)) >>

\* the (row, col) keys the nested loops of precalculate_positions visit
PegKeys(rows) == {k \in (0..(rows - 1)) \X (0..(rows - 1)) : k[2] <= k[1]}

\* precalculate_positions: the peg table
PegTable(rows) == [k \in PegKeys(rows) |-> PegXY(rows, k[1], k[2])]

\* precalculate_positions: one bin
BinXY(rows, bin_num) ==
  LET x == board_x + board_margin
             + (usable_width * (2 * bin_num + 1)) \div (2 * (rows + 1))
  IN << Max(board_x + board_margin, Min(x, board_x + board_width - board_margin)),
        board_y + board_height - 60 >>

\* precalculate_positions: the bin table
BinTable(rows) == [b \in 0..rows |-> BinXY(rows, b)]

\* get_peg_position, with its fallback for a missing peg
get_peg_position(pegs, row, col) ==
  IF <<row, col>> \in DOMAIN pegs THEN pegs[<<row, col>>]
  ELSE <<board_x + board_width \div 2, board_y + board_margin>>

\* get_bin_position, with its fallback for a missing bin
get_bin_position(bins, bin_num) ==
  IF 0 <= bin_num /\ bin_num < Cardinality(DOMAIN bins) /\ bin_num \in DOMAIN bins
  THEN bins[bin_num]
  ELSE <<board_x + board_width \div 2, board_y + board_height - 60>>

\* clamp_position, on coordinates in tenths of a pixel
clamp_position(x, y) ==
  LET min_x == Px(board_x + board_margin)
      max_x == Px(board_x + board_width - board_margin)
      min_y == Px(board_y + 20)
      max_y == Px(board_y + board_height - 20)
      cx == Max(min_x, Min(x, max_x))
      cy == Max(min_y, Min(y, max_y))
  IN IF \/ cx <= Px(board_x + 10) \/ cx >= Px(board_x + board_width - 10)
        \/ cy <= Px(board_y + 10) \/ cy >= Px(board_y + board_height - 10)
     THEN <<Px(board_x + board_width \div 2), Px(board_y + board_height \div 2)>>
     ELSE <<cx, cy>>

\* calculate_theoretical_values, in hundredths
TheoreticalMean(rows, prob) == rows * prob
TheoreticalStd(rows, prob) == ISqrt(rows * prob * (100 - prob))

\* ---- PathGenerator ----
\* the random sources tried: np.random.random() returns the values of a block over
\* and over, in hundredths (0.25 always falls right of a peg for the probabilities
\* used here, 0.75 falls right only for probability 0.9)
RandomStreams == { <<25>>, <<75, 25, 25>> }

\* the k-th value (k >= 0) np.random.random() returns
DrawAt(stream, k) == stream[(k % Len(stream)) + 1]

\* generate_ball_paths: path[r] = successes among the ball's draws for rows 0..r
PathOfWalk(stream, ball, rows, prob) ==
  [r \in 1..rows |->
     2 * Cardinality({j \in 1..r : DrawAt(stream, ball * rows + (j - 1)) < prob}) - r]
PathOfInverted(stream, ball, rows, prob) ==
  [r \in 1..rows |->
     Cardinality({j \in 1..r : DrawAt(stream, ball * rows + (j - 1)) > prob})]
PathOf(stream, ball, rows, prob) ==
  [r \in 1..rows |->
     Cardinality({j \in 1..r : DrawAt(stream, ball * rows + (j - 1)) < prob})]

generate_ball_paths(stream, balls, rows, prob) ==
  [b \in 1..balls |-> PathOf(stream, b - 1, rows, prob)]

\* ---- construction ----
DefaultSliders ==
  [balls |-> DefaultBalls, rows |-> DefaultRows, prob |-> DefaultProb,
   speed |-> DefaultSpeed, multi |-> DefaultMulti]

Init ==
  /\ n_balls = DefaultBalls
  /\ n_rows = DefaultRows
  /\ probability = DefaultProb
  /\ ball_speed = DefaultSpeed
  /\ max_simultaneous_balls = DefaultMulti
  /\ sliders = DefaultSliders
  /\ ball_paths = <<>>
  /\ balls_in_flight = <<>>
  /\ balls_dropped = 0
  /\ delay_counter = 0
  /\ ball_falling = FALSE
  /\ positions = <<>>
  /\ bins_count = Zeros(DefaultRows + 1)
  /\ balls_completed = 0
  /\ observed_mean = 0
  /\ observed_std = 0
  /\ theoretical_mean = TheoreticalMean(DefaultRows, DefaultProb)
  /\ theoretical_std = TheoreticalStd(DefaultRows, DefaultProb)
  /\ simulation_complete = FALSE
  /\ plot_update_counter = 0
  /\ plot_needs_update = FALSE
  /\ peg_positions = PegTable(DefaultRows)
  /\ bin_positions = BinTable(DefaultRows)
  /\ dragging = None
  /\ paused = FALSE
  /\ stopped = FALSE
  /\ edits = 0


\* ---- AnimationScheduler ----
Ball(ball_index, current_row, x, y, target_x, target_y) ==
  [ball_index |-> ball_index, current_row |-> current_row, x |-> x, y |-> y,
   target_x |-> target_x, target_y |-> target_y]

\* start_next_balls: the flight record a newly admitted ball gets
NewBall(ball_index, pegs) ==
  LET onPeg == <<0, 0>> \in DOMAIN pegs
      sx == IF onPeg THEN pegs[<<0, 0>>][1] ELSE board_x + board_width \div 2
      sy == board_y + 20
      tx == IF onPeg THEN pegs[<<0, 0>>][1] ELSE sx
      ty == IF onPeg THEN pegs[<<0, 0>>][2] ELSE board_y + board_margin
      p == clamp_position(Px(sx), Px(sy))
      t == clamp_position(Px(tx), Px(ty))
  IN Ball(ball_index, 0, p[1], p[2], t[1], t[2])

\* start_next_balls: the while loop; yields the new balls_in_flight and balls_dropped
RECURSIVE start_next_balls(_, _, _, _, _)
start_next_balls(flight, dropped, balls, cap, pegs) ==
  IF Len(flight) < cap /\ dropped < balls
  THEN start_next_balls(Append(flight, NewBall(dropped, pegs)), dropped + 1, balls, cap, pegs)
  ELSE [flight |-> flight, dropped |-> dropped]

\* update_animation: effective_speed, in pixels per frame
EffectiveSpeed(speed) == Min(speed * 2, SpeedCap)

\* update_animation: the delay_counter reload, max(1, 30 - ball_speed * 0.3), in tenths
DelayReload(speed) == Max(10, 300 - 3 * speed)

\* update_animation: has the ball reached its target this frame
Arrived(distance_sq, step) == distance_sq < step * step

\* update_animation: how often the observed statistics are refreshed
StatsDue(completed) == completed % StatsEvery = 0

\* update_animation: the body of the for loop for the ball at index i (1-based) of
\* st.flight; st carries the fields the loop reads and writes
StepBall(st, i, paths, rows, pegs, bins, speed) ==
  LET b == st.flight[i]
      p == clamp_position(b.x, b.y)
      t == clamp_position(b.target_x, b.target_y)
      dx == t[1] - p[1]
      dy == t[2] - p[2]
      distance_sq == dx * dx + dy * dy
      step == Px(EffectiveSpeed(speed))
  IN IF Arrived(distance_sq, step)
     THEN LET a == clamp_position(t[1], t[2])
          IN IF b.current_row < rows
             THEN LET row == b.current_row + 1
                      path == paths[b.ball_index + 1]
                      nt == IF row < rows
                            THEN get_peg_position(pegs, row, path[row + 1])
                            ELSE get_bin_position(bins, path[Len(path)])
                      ct == clamp_position(Px(nt[1]), Px(nt[2]))
                  IN [st EXCEPT !.flight[i] =
                        Ball(b.ball_index, row, a[1], a[2], ct[1], ct[2])]
             ELSE LET path == paths[b.ball_index + 1]
                      final_position == path[Len(path)]
                  IN IF 0 <= final_position /\ final_position < Len(st.bins_count)
                     THEN LET pos == Append(st.positions, final_position)
                              done == st.balls_completed + 1
                              due == StatsDue(done)
                              cnt == st.plot_update_counter + 1
                              redraw == cnt >= plot_update_interval
                          IN [st EXCEPT
                                !.positions = pos,
                                !.bins_count[final_position + 1] = @ + 1,
                                !.balls_completed = done,
                                !.observed_mean = IF due THEN MeanOf(pos) ELSE @,
                                !.observed_std =
                                   IF due THEN (IF Len(pos) > 1 THEN StdOf(pos) ELSE 0) ELSE @,
                                !.plot_update_counter = IF redraw THEN 0 ELSE cnt,
                                !.plot_needs_update = IF redraw THEN TRUE ELSE @,
                                !.remove = @ \cup {i}]
                     ELSE [st EXCEPT !.remove = @ \cup {i}]
     ELSE LET distance == ISqrt(distance_sq)
              nx == IF distance_sq > 0 THEN p[1] + Quot(step * dx, distance) ELSE p[1]
              ny == IF distance_sq > 0 THEN p[2] + Quot(step * dy, distance) ELSE p[2]
              np == clamp_position(nx, ny)
          IN [st EXCEPT !.flight[i] =
                Ball(b.ball_index, b.current_row, np[1], np[2], t[1], t[2])]

\* update_animation: the for loop over enumerate(balls_in_flight)
RECURSIVE StepBalls(_, _, _, _, _, _, _)
StepBalls(st, i, paths, rows, pegs, bins, speed) ==
  IF i > Len(st.flight) THEN st
  ELSE StepBalls(StepBall(st, i, paths, rows, pegs, bins, speed), i + 1,
                 paths, rows, pegs, bins, speed)

\* update_animation: pop the indices of balls_to_remove
RECURSIVE RemoveBalls(_, _, _)
RemoveBallsForward(flight, remove, i) ==
  LET popped == {r + Cardinality({q \in remove : q < r}) : r \in remove}
      keep == {k \in 1..Len(flight) : k \notin popped}
  IN [n \in 1..Cardinality(keep) |->
        flight[CHOOSE k \in keep : Cardinality({j \in keep : j <= k}) = n]]
RemoveBallsKeepAll(flight, remove, i) == flight
RemoveBalls(flight, remove, i) ==
  IF i > Len(flight) THEN <<>>
  ELSE IF i \in remove THEN RemoveBalls(flight, remove, i + 1)
       ELSE <<flight[i]>> \o RemoveBalls(flight, remove, i + 1)

\* update_animation: the run is over when every ball was dropped and none is in flight
RunOverStrict(dropped, balls, flight) == dropped > balls /\ Len(flight) = 0
RunOver(dropped, balls, flight) == dropped >= balls /\ Len(flight) = 0

\* update_plot_surface: renders unless nothing is due or no outcome exists yet
PlotRenders(needs, pos) == needs /\ Len(pos) # 0


\* ---- handlers ----
\* update_animation: the early return
AnimationIgnoresPause(falling, isPaused, isStopped) == falling /\ ~isStopped
AnimationAlways(falling, isPaused, isStopped) == TRUE
AnimationActive(falling, isPaused, isStopped) == falling /\ ~isPaused /\ ~isStopped

\* update_animation: the values it leaves in the fields it writes
update_animation ==
  LET unchanged == [balls_in_flight |-> balls_in_flight, balls_dropped |-> balls_dropped,
                    delay_counter |-> delay_counter, positions |-> positions,
                    bins_count |-> bins_count, balls_completed |-> balls_completed,
                    observed_mean |-> observed_mean, observed_std |-> observed_std,
                    plot_update_counter |-> plot_update_counter,
                    plot_needs_update |-> plot_needs_update,
                    ball_falling |-> ball_falling,
                    simulation_complete |-> simulation_complete]
  IN IF ~AnimationActive(ball_falling, paused, stopped) THEN unchanged
     ELSE
       LET adm == IF delay_counter > 0
                  THEN [flight |-> balls_in_flight, dropped |-> balls_dropped]
                  ELSE start_next_balls(balls_in_flight, balls_dropped, n_balls,
                                        max_simultaneous_balls, peg_positions)
           delay == IF delay_counter > 0 THEN delay_counter - 10
                    ELSE DelayReload(ball_speed)
           st0 == [flight |-> adm.flight, positions |-> positions,
                   bins_count |-> bins_count, balls_completed |-> balls_completed,
                   observed_mean |-> observed_mean, observed_std |-> observed_std,
                   plot_update_counter |-> plot_update_counter,
                   plot_needs_update |-> plot_needs_update, remove |-> {}]
           Finish(st1) ==
             LET flight1 == RemoveBalls(st1.flight, st1.remove, 1)
                 over == RunOver(adm.dropped, n_balls, flight1)
             IN [balls_in_flight |-> flight1, balls_dropped |-> adm.dropped,
                 delay_counter |-> delay, positions |-> st1.positions,
                 bins_count |-> st1.bins_count, balls_completed |-> st1.balls_completed,
                 observed_mean |-> st1.observed_mean, observed_std |-> st1.observed_std,
                 plot_update_counter |-> st1.plot_update_counter,
                 plot_needs_update |-> (st1.plot_needs_update \/ over),
                 ball_falling |-> IF over THEN FALSE ELSE ball_falling,
                 simulation_complete |-> IF over THEN TRUE ELSE simulation_complete]
       IN Finish(StepBalls(st0, 1, ball_paths, n_rows, peg_positions, bin_positions,
                           ball_speed))

\* one frame of run(): update_animation, then update_plot_surface when a plot is due
Tick ==
  /\ \E r \in {update_animation} :
       /\ balls_in_flight' = r.balls_in_flight
       /\ balls_dropped' = r.balls_dropped
       /\ delay_counter' = r.delay_counter
       /\ positions' = r.positions
       /\ bins_count' = r.bins_count
       /\ balls_completed' = r.balls_completed
       /\ observed_mean' = r.observed_mean
       /\ observed_std' = r.observed_std
       /\ plot_update_counter' = r.plot_update_counter
       /\ ball_falling' = r.ball_falling
       /\ simulation_complete' = r.simulation_complete
       /\ plot_needs_update' =
            IF PlotRenders(r.plot_needs_update, r.positions) THEN FALSE
            ELSE r.plot_needs_update
  /\ UNCHANGED <<configVars, geomVars, theoVars, ball_paths, paused, stopped,
                 dragging, edits>>

\* start_animation: update_bins_array_size() then bins_count.fill(0)
StartBinsKept(bins, rows) == ResizedBins(bins, rows)
StartBins(bins, rows) == Zeros(Len(ResizedBins(bins, rows)))

\* start_animation
start_animation(stream) ==
  LET adm == start_next_balls(<<>>, 0, n_balls, max_simultaneous_balls, PegTable(n_rows))
  IN /\ positions' = <<>>
     /\ bins_count' = StartBins(bins_count, n_rows)
     /\ balls_completed' = 0
     /\ observed_mean' = 0
     /\ observed_std' = 0
     /\ simulation_complete' = FALSE
     /\ balls_dropped' = adm.dropped
     /\ balls_in_flight' = adm.flight
     /\ ball_falling' = TRUE
     /\ paused' = FALSE
     /\ stopped' = FALSE
     /\ delay_counter' = 0
     /\ plot_update_counter' = 0
     /\ plot_needs_update' = TRUE
     /\ peg_positions' = PegTable(n_rows)
     /\ bin_positions' = BinTable(n_rows)
     /\ ball_paths' = generate_ball_paths(stream, n_balls, n_rows, probability)
     /\ UNCHANGED <<configVars, theoVars, edits>>

\* reset_parameters: update_bins_array_size() then bins_count.fill(0)
ResetBinsKept(bins, rows) == ResizedBins(bins, rows)
ResetBinsGrown(bins, rows) == Zeros(Len(bins) + 1)
ResetBins(bins, rows) == Zeros(Len(ResizedBins(bins, rows)))

\* reset_parameters: the in-flight list it leaves
ResetFlightKept(flight) == flight
ResetFlight(flight) == <<>>

\* reset_parameters
reset_parameters ==
  /\ n_balls' = DefaultBalls
  /\ n_rows' = DefaultRows
  /\ probability' = DefaultProb
  /\ ball_speed' = DefaultSpeed
  /\ max_simultaneous_balls' = DefaultMulti
  /\ sliders' = DefaultSliders
  /\ ball_falling' = FALSE
  /\ simulation_complete' = FALSE
  /\ balls_completed' = 0
  /\ positions' = <<>>
  /\ bins_count' = ResetBins(bins_count, DefaultRows)
  /\ balls_in_flight' = ResetFlight(balls_in_flight)
  /\ paused' = FALSE
  /\ stopped' = FALSE
  /\ plot_needs_update' = TRUE
  /\ theoretical_mean' = TheoreticalMean(DefaultRows, DefaultProb)
  /\ theoretical_std' = TheoreticalStd(DefaultRows, DefaultProb)
  /\ peg_positions' = PegTable(DefaultRows)
  /\ bin_positions' = BinTable(DefaultRows)
  /\ UNCHANGED <<ball_paths, balls_dropped, delay_counter, observed_mean, observed_std,
                 plot_update_counter, edits>>

\* run / handle_button_click: a run may be started only when none is falling
StartAlways(falling) == TRUE
StartAllowed(falling) == ~falling

\* run / handle_button_click: pause toggles only while balls are falling
PauseAlways(falling) == TRUE
PauseAllowed(falling) == falling

\* handle_button_click, 'stop': the flags after the click, <<ball_falling, stopped>>
StopFlags(falling, isStopped) == <<FALSE, TRUE>>

\* handle_button_click, 'stop': the in-flight list after the click (left as it is)
StopFlight(flight) == flight

\* handle_slider_input: the early return while a run is active
SliderNeverBlocked(falling, isStopped) == FALSE
SliderBlockedWhenStopped(falling, isStopped) == falling /\ isStopped
SliderBlocked(falling, isStopped) == falling /\ ~isStopped

\* handle_slider_input: the value a slider takes for mouse x (ratio = offset / width)
SliderValue(name, mx) ==
  LET off == Max(0, Min(slider_width, mx - slider_x))
      lo == CASE name = "balls" -> BallsMin [] name = "rows" -> RowsMin
              [] name = "prob" -> ProbMin [] name = "speed" -> SpeedMin
              [] OTHER -> MultiMin
      hi == CASE name = "balls" -> BallsMax [] name = "rows" -> RowsMax
              [] name = "prob" -> ProbMax [] name = "speed" -> SpeedMax
              [] OTHER -> MultiMax
      num == slider_width * lo + off * (hi - lo)
      new_value == IF name = "balls"
                   THEN (num \div (slider_width * BallsStep)) * BallsStep
                   ELSE RoundHalfEven(num, slider_width)
  IN Max(lo, Min(hi, new_value))

\* handle_slider_input past the early return: the edit of slider `name`
SliderEdit(name, mx) ==
  LET v == SliderValue(name, mx)
      rows == IF name = "rows" THEN v ELSE n_rows
      prob == IF name = "prob" THEN v ELSE probability
  IN /\ sliders' = [sliders EXCEPT ![name] = v]
     /\ n_balls' = IF name = "balls" THEN v ELSE n_balls
     /\ n_rows' = rows
     /\ probability' = prob
     /\ ball_speed' = IF name = "speed" THEN v ELSE ball_speed
     /\ max_simultaneous_balls' = IF name = "multi" THEN v ELSE max_simultaneous_balls
     /\ bins_count' = IF name = "rows" THEN ResizedBins(bins_count, rows) ELSE bins_count
     /\ peg_positions' = IF name = "rows" THEN PegTable(rows) ELSE peg_positions
     /\ bin_positions' = IF name = "rows" THEN BinTable(rows) ELSE bin_positions
     /\ theoretical_mean' = TheoreticalMean(rows, prob)
     /\ theoretical_std' = TheoreticalStd(rows, prob)
     /\ edits' = edits + 1
     /\ UNCHANGED <<flightVars, positions, balls_completed, observed_mean, observed_std,
                    plotVars, flagVars>>

\* the mouse positions tried on the sliders: <<slider, mouse x>>
SliderInputs ==
  { <<"balls", 40>>, <<"rows", 40>>, <<"prob", 240>>, <<"speed", 58>>, <<"multi", 65>> }

\* run: K_r
KeyReset ==
  /\ reset_parameters
  /\ UNCHANGED dragging

\* run: K_RETURN, K_SPACE
KeyStart ==
  /\ IF StartAllowed(ball_falling)
     THEN (\E stream \in RandomStreams : start_animation(stream)) /\ UNCHANGED dragging
     ELSE UNCHANGED vars

\* run: K_p
KeyPause ==
  /\ IF PauseAllowed(ball_falling)
     THEN /\ paused' = ~paused
          /\ UNCHANGED <<configVars, geomVars, theoVars, flightVars, statVars, plotVars,
                         ball_falling, simulation_complete, stopped, dragging, edits>>
     ELSE UNCHANGED vars

\* run: MOUSEBUTTONDOWN on a slider
MouseDownSlider ==
  IF SliderBlocked(ball_falling, stopped)
  THEN /\ dragging' = None
       /\ UNCHANGED <<configVars, geomVars, theoVars, flightVars, statVars, plotVars,
                      flagVars, edits>>
  ELSE /\ edits < MaxEdits
       /\ \E in \in SliderInputs :
            /\ SliderEdit(in[1], in[2])
            /\ dragging' = in[1]

\* run: MOUSEBUTTONDOWN on the START button
ClickRun ==
  /\ dragging' = None
  /\ IF StartAllowed(ball_falling)
     THEN \E stream \in RandomStreams : start_animation(stream)
     ELSE UNCHANGED <<configVars, geomVars, theoVars, flightVars, statVars, plotVars,
                      flagVars, edits>>

\* run: MOUSEBUTTONDOWN on the PAUSE button
ClickPause ==
  /\ dragging' = None
  /\ paused' = IF PauseAllowed(ball_falling) THEN ~paused ELSE paused
  /\ UNCHANGED <<configVars, geomVars, theoVars, flightVars, statVars, plotVars,
                 ball_falling, simulation_complete, stopped, edits>>

\* run: MOUSEBUTTONDOWN on the STOP button
ClickStop ==
  /\ dragging' = None
  /\ ball_falling' = StopFlags(ball_falling, stopped)[1]
  /\ stopped' = StopFlags(ball_falling, stopped)[2]
  /\ balls_in_flight' = StopFlight(balls_in_flight)
  /\ UNCHANGED <<configVars, geomVars, theoVars, ball_paths, balls_dropped, delay_counter,
                 statVars, plotVars, simulation_complete, paused, edits>>

\* run: MOUSEBUTTONDOWN on the RESET button
ClickReset ==
  /\ dragging' = None
  /\ reset_parameters

\* run: MOUSEBUTTONUP
MouseUp ==
  /\ dragging' = None
  /\ UNCHANGED <<configVars, geomVars, theoVars, flightVars, statVars, plotVars, flagVars,
                 edits>>

\* run: MOUSEMOTION over a slider while dragging
MouseMotion ==
  /\ dragging # None
  /\ IF SliderBlocked(ball_falling, stopped)
     THEN UNCHANGED vars
     ELSE /\ edits < MaxEdits
          /\ \E in \in SliderInputs : SliderEdit(in[1], in[2])
          /\ UNCHANGED dragging

Next ==
  \/ Tick
  \/ KeyReset
  \/ KeyStart
  \/ KeyPause
  \/ MouseDownSlider
  \/ ClickRun
  \/ ClickPause
  \/ ClickStop
  \/ ClickReset
  \/ MouseUp
  \/ MouseMotion

Spec == Init /\ [][Next]_vars


\* ---- whole runs on boundary configurations, under the frame loop's fairness ----
\* probability 0 and 1 lie outside the slider's range (0.1 .. 0.9); they are the
\* path generator's boundary inputs, assigned to the object's field
BoundaryProbabilities == {0, 100}

\* the object after construction with its config fields assigned and the
\* dependent fields refreshed as handle_slider_input refreshes them
RunInit ==
  /\ n_balls \in {BallsMin, DefaultBalls}
  /\ n_rows \in RowsMin..RowsMax
  /\ probability \in BoundaryProbabilities \cup {DefaultProb}
  /\ ball_speed = DefaultSpeed
  /\ max_simultaneous_balls \in {MultiMin, DefaultMulti}
  /\ sliders = [balls |-> n_balls, rows |-> n_rows, prob |-> probability,
                speed |-> ball_speed, multi |-> max_simultaneous_balls]
  /\ ball_paths = <<>>
  /\ balls_in_flight = <<>>
  /\ balls_dropped = 0
  /\ delay_counter = 0
  /\ ball_falling = FALSE
  /\ positions = <<>>
  /\ bins_count = Zeros(n_rows + 1)
  /\ balls_completed = 0
  /\ observed_mean = 0
  /\ observed_std = 0
  /\ theoretical_mean = TheoreticalMean(n_rows, probability)
  /\ theoretical_std = TheoreticalStd(n_rows, probability)
  /\ simulation_complete = FALSE
  /\ plot_update_counter = 0
  /\ plot_needs_update = FALSE
  /\ peg_positions = PegTable(n_rows)
  /\ bin_positions = BinTable(n_rows)
  /\ dragging = None
  /\ paused = FALSE
  /\ stopped = FALSE
  /\ edits = 0

\* the events of an uninterrupted run: frames, start, pause / resume
RunNext ==
  \/ Tick
  \/ KeyStart
  \/ KeyPause

\* run() calls update_animation once per loop iteration, however many events
\* arrive, so frames keep coming: a run that is active again and again gets
\* frames again and again (strong fairness of Tick, written out: a frame of an
\* active run always changes delay_counter, so <<Tick>>_vars is enabled exactly
\* when AnimationActive holds).  A paused run is resumed at some point.
RunSpec ==
  /\ RunInit
  /\ [][RunNext]_vars
  /\ (<>[]~AnimationActive(ball_falling, paused, stopped) \/ []<><<Tick>>_vars)
  /\ WF_vars(paused /\ KeyPause)


\* ---- scheduler states, as the flags encode them ----
Idle == ~ball_falling /\ ~stopped /\ ~simulation_complete
Running == ball_falling /\ ~paused
Paused == ball_falling /\ paused
Reset == KeyReset \/ ClickReset
Start == KeyStart \/ ClickRun
PauseToggle == KeyPause \/ ClickPause
RunState == <<ball_paths, balls_in_flight, balls_dropped, delay_counter, positions,
              bins_count, balls_completed, observed_mean, observed_std>>

\* ---- claims ----

\* C1: at no point does the in-flight list hold more balls than
\* max_simultaneous_balls.  Stated as claimed; the code breaks it once a stopped
\* run's balls are left in the list and the cap is lowered.
C1_InFlightWithinCap == Len(balls_in_flight) <= max_simultaneous_balls

\* C2: whenever simulation_complete is set, the histogram sums to n_balls.
\* Stated as claimed; a slider edit after completion breaks it.
C2_CompleteSumsToBallCount == simulation_complete => SumSeq(bins_count) = n_balls

\* C3: in every reachable state the histogram credits no more outcomes than
\* balls_completed counts.
C3_HistogramWithinCompleted == SumSeq(bins_count) <= balls_completed

\* C3 witness: a run stopped with balls still in flight and outcomes recorded,
\* whose row count was edited afterwards (the paths keep the old length).
C3_Witness ==
  /\ stopped /\ ~ball_falling
  /\ Len(balls_in_flight) > 0
  /\ balls_completed > 0
  /\ Len(ball_paths[1]) # n_rows

\* C4: while the scheduler is paused a frame leaves the in-flight list (members,
\* rows, positions, targets), the admitted count, the delay counter and the
\* histogram as they are, and toggling pause leaves them as they are too, so the
\* first frame after resume starts from the frozen positions.
C4_PauseFreezes ==
  [][((Paused /\ Tick) \/ (ball_falling /\ PauseToggle))
       => UNCHANGED <<balls_in_flight, balls_dropped, delay_counter, bins_count,
                      positions, balls_completed>>]_vars

\* C4 witness: paused in mid-flight, a ball between waypoints, an admission pending.
C4_Witness ==
  /\ Paused
  /\ balls_dropped < n_balls
  /\ delay_counter > 0
  /\ \E i \in 1..Len(balls_in_flight) :
       /\ balls_in_flight[i].current_row > 0
       /\ balls_in_flight[i].y # balls_in_flight[i].target_y

\* C5: once stop was issued, no step short of a start or reset completes or
\* admits a ball: the outcome list, balls_completed and balls_dropped stay as
\* they are, and a frame leaves the histogram and the in-flight list as they are.
C5_StopHalts ==
  [][(stopped /\ stopped')
       => /\ UNCHANGED <<positions, balls_completed, balls_dropped>>
          /\ (Tick => UNCHANGED <<bins_count, balls_in_flight>>)]_vars

\* C5 witness: stopped in mid-run, balls abandoned in flight, balls not yet admitted.
C5_Witness ==
  /\ stopped /\ ~ball_falling
  /\ Len(balls_in_flight) > 0
  /\ balls_dropped < n_balls
  /\ balls_completed > 0

\* C6: after stop the in-flight list is empty.  Stated as claimed; the code
\* leaves the abandoned balls in the list.
C6_StopDiscardsInFlight == stopped => balls_in_flight = <<>>

\* C7: start issued while a run is active (running or paused) changes nothing of
\* the config, paths, in-flight list, counts, histogram, outcomes or flags.
C7_StartWhileActiveIsNoOp ==
  [][(ball_falling /\ Start) => UNCHANGED <<configVars, RunState, flagVars>>]_vars

\* C7 witness: a paused run with balls in flight and outcomes recorded, where a
\* start leaves the state as it is.
C7_Witness ==
  /\ Paused
  /\ Len(balls_in_flight) > 0
  /\ balls_completed > 0
  /\ ENABLED (KeyStart /\ UNCHANGED vars)

\* C8: a step that activates a run (start from idle, stopped or complete) leaves
\* an all-zero histogram of n_rows + 1 bins, no outcomes, zero counts and
\* statistics, the paused / stopped / complete flags clear, and one path of
\* length n_rows per ball.
C8_StartResetsRun ==
  [][(~ball_falling /\ ball_falling')
       => /\ bins_count' = Zeros(n_rows' + 1)
          /\ positions' = <<>>
          /\ balls_completed' = 0
          /\ observed_mean' = 0 /\ observed_std' = 0
          /\ ~paused' /\ ~stopped' /\ ~simulation_complete'
          /\ Len(ball_paths') = n_balls'
          /\ \A b \in 1..Len(ball_paths') : Len(ball_paths'[b]) = n_rows']_vars

\* C8 witness: a run just started on an edited board (fewer rows than the
\* default), before its first frame.
C8_Witness ==
  /\ Running
  /\ n_rows # DefaultRows
  /\ delay_counter = 0
  /\ balls_dropped > 0
  /\ positions = <<>> /\ balls_completed = 0
  /\ \A i \in 1..Len(balls_in_flight) : balls_in_flight[i].current_row = 0

\* C9: reset, in any state, returns the config to its defaults and leaves the
\* scheduler idle with no ball in flight, an all-zero histogram of n_rows + 1
\* bins, no outcomes and balls_completed 0.
C9_ResetRestoresDefaults ==
  [][Reset
       => /\ n_balls' = DefaultBalls /\ n_rows' = DefaultRows
          /\ probability' = DefaultProb /\ ball_speed' = DefaultSpeed
          /\ max_simultaneous_balls' = DefaultMulti
          /\ Idle' /\ ~paused'
          /\ balls_in_flight' = <<>>
          /\ bins_count' = Zeros(DefaultRows + 1)
          /\ positions' = <<>>
          /\ balls_completed' = 0]_vars

\* C9 witness: idle on the default config after a run was reset away (its
\* paths and admitted count are still there).
C9_Witness ==
  /\ Idle
  /\ n_balls = DefaultBalls /\ n_rows = DefaultRows
  /\ balls_dropped > 0 /\ ball_paths # <<>>
  /\ balls_in_flight = <<>> /\ positions = <<>>

\* C10: after reset the running statistics are zero: no outcome counted, observed
\* mean 0, observed standard deviation 0.  Stated as claimed; reset_parameters
\* leaves observed_mean and observed_std of the previous run in place.
C10_ResetClearsStatistics ==
  [][Reset => (balls_completed' = 0 /\ observed_mean' = 0 /\ observed_std' = 0)]_vars

\* the fields reset_parameters writes hold the values it writes
AfterReset ==
  /\ n_balls = DefaultBalls /\ n_rows = DefaultRows /\ probability = DefaultProb
  /\ ball_speed = DefaultSpeed /\ max_simultaneous_balls = DefaultMulti
  /\ sliders = DefaultSliders
  /\ ~ball_falling /\ ~simulation_complete /\ ~paused /\ ~stopped
  /\ balls_completed = 0 /\ positions = <<>>
  /\ bins_count = Zeros(DefaultRows + 1)
  /\ balls_in_flight = <<>>
  /\ plot_needs_update
  /\ theoretical_mean = TheoreticalMean(DefaultRows, DefaultProb)
  /\ theoretical_std = TheoreticalStd(DefaultRows, DefaultProb)
  /\ peg_positions = PegTable(DefaultRows)
  /\ bin_positions = BinTable(DefaultRows)

\* C11: reset is idempotent.  Every reset ends in a state where the fields it
\* writes hold the values it writes, and a reset issued in such a state changes
\* no field of the simulation (dragging is the mouse handler's, not reset's).
C11_ResetIdempotent ==
  [][Reset => /\ AfterReset'
              /\ (AfterReset => UNCHANGED <<configVars, geomVars, theoVars, flightVars,
                                            statVars, plotVars, flagVars, edits>>)]_vars

\* C11 witness: the state a reset leaves when it interrupts a run between two
\* admissions; the fields reset does not write still carry the run.
C11_Witness ==
  /\ AfterReset
  /\ ball_paths # <<>>
  /\ delay_counter > 0
  /\ balls_dropped > 0

\* a mouse event that reaches handle_slider_input
SliderEvent == MouseDownSlider \/ MouseMotion

\* C12: a slider edit attempted while a run is active (running or paused) is
\* rejected: it leaves the config, the sliders, the histogram, the cached
\* geometry and the theoretical statistics as they are.  Hence an edit that
\* changes any of them happens only when no run is active.
C12_EditsRejectedWhileActive ==
  [][(ball_falling /\ SliderEvent)
       => UNCHANGED <<configVars, geomVars, theoVars, bins_count>>]_vars

\* C12 witness: a paused run with balls in flight while a slider is being
\* dragged (the drag began before the run was started), so that mouse motion
\* attempts an edit.
C12_Witness ==
  /\ Paused
  /\ dragging # None
  /\ Len(balls_in_flight) > 0
  /\ n_balls # DefaultBalls

\* every field but dragging, which MOUSEBUTTONDOWN assigns before a button is looked up
SimState == <<configVars, geomVars, theoVars, flightVars, statVars, plotVars, flagVars, edits>>

\* C13: pause / resume issued while no run is active (idle, stopped or complete)
\* is a no-op: the paused flag and every other field of the simulation stay as
\* they are (the key changes nothing at all).
C13_PauseWhileInactiveIsNoOp ==
  [][(~ball_falling /\ PauseToggle)
       => /\ UNCHANGED SimState
          /\ (KeyPause => UNCHANGED vars)]_vars

\* C13 witness: a run stopped while it was paused; the paused flag is still set
\* and balls are left in flight, and a pause request is ignored.
C13_Witness ==
  /\ ~ball_falling /\ stopped /\ paused
  /\ Len(balls_in_flight) > 0

\* C14: stop issued while no run is active is a no-op.  Stated as claimed; the
\* 'stop' branch sets the stopped flag whatever the state.
C14_StopWhileInactiveIsNoOp ==
  [][(~ball_falling /\ ClickStop) => UNCHANGED SimState]_vars

\* C15: the complete flag and the stopped flag are never both set.  Stated as
\* claimed; a stop clicked after completion sets stopped next to complete.
C15_CompleteStoppedDistinct == ~(simulation_complete /\ stopped)

\* C16: a started run that is not stopped or reset, and not left paused for
\* ever, reaches Complete under fair ticking, with no ball in flight and
\* balls_completed equal to n_balls.
C16_RunCompletes ==
  ball_falling ~> (simulation_complete /\ balls_in_flight = <<>>
                     /\ balls_completed = n_balls)

\* C16 witness: the single-ball run on the tallest board with probability 1 and
\* a cap of one ball, complete with its one outcome in the last bin.
C16_Witness ==
  /\ simulation_complete
  /\ n_balls = BallsMin /\ n_rows = RowsMax
  /\ probability = 100 /\ max_simultaneous_balls = MultiMin
  /\ bins_count = [i \in 1..(RowsMax + 1) |-> IF i = RowsMax + 1 THEN BallsMin ELSE 0]
  /\ balls_completed = BallsMin
  /\ balls_in_flight = <<>>

WellFormedPath(path, rows) ==
  /\ Len(path) = rows
  /\ \A j \in 1..Len(path) :
       /\ 0 <= path[j] /\ path[j] <= j
       /\ path[j] - (IF j = 1 THEN 0 ELSE path[j - 1]) \in {0, 1}
  /\ (rows > 0 => path[rows] \in 0..rows)

\* C18: every generated path has length n_rows, starts from 0 or 1, never
\* decreases, rises by at most 1 per row, keeps path[r] <= r + 1 (row r counted
\* from 0) and ends in 0 .. n_rows; there is one path per ball.
C18_PathsWellFormed ==
  ball_paths # <<>>
    => /\ Len(ball_paths) = n_balls
       /\ \A b \in 1..Len(ball_paths) : WellFormedPath(ball_paths[b], n_rows)

\* C18 witness: a started run on the tallest board whose paths include one that
\* goes left first and right later.
C18_Witness ==
  /\ ball_falling
  /\ n_rows = RowsMax /\ n_balls = DefaultBalls
  /\ \E b \in 1..Len(ball_paths) :
       ball_paths[b][1] = 0 /\ ball_paths[b][n_rows] > 0

\* C19: with probability 0 every recorded outcome is bin 0, with probability 1
\* every recorded outcome is bin n_rows, and the histogram holds all of them in
\* that bin.
C19_BoundaryProbabilities ==
  /\ (probability = 0
        => /\ \A k \in 1..Len(positions) : positions[k] = 0
           /\ bins_count[1] = balls_completed)
  /\ (probability = 100
        => /\ \A k \in 1..Len(positions) : positions[k] = n_rows
           /\ bins_count[n_rows + 1] = balls_completed)

\* C19 witness: a complete run of the default ball count on the tallest board
\* with probability 0, every ball in bin 0.
C19_Witness ==
  /\ simulation_complete
  /\ probability = 0
  /\ n_rows = RowsMax /\ n_balls = DefaultBalls
  /\ bins_count[1] = DefaultBalls
  /\ Len(positions) = DefaultBalls

\* C20: a ball that was retargeted to a peg row is sent to a defined peg: the
\* column read from its path is at most the row.  Stated as claimed; the code
\* reads path[current_row] after incrementing current_row, which counts the
\* draws of rows 0 .. current_row and can be current_row + 1.
C20_TargetPegDefined ==
  \A i \in 1..Len(balls_in_flight) :
    LET b == balls_in_flight[i]
        path == ball_paths[b.ball_index + 1]
    IN (1 <= b.current_row /\ b.current_row < Len(path))
         => (0 <= path[b.current_row + 1] /\ path[b.current_row + 1] <= b.current_row)

\* C21: no operation admits more than one ball: start admits at most one, and
\* no other step raises balls_dropped by more than one.  Stated as claimed;
\* start_next_balls fills every free slot of the cap in one call.
C21_OneAdmissionPerOperation ==
  [][IF ~ball_falling /\ ball_falling'
     THEN balls_dropped' <= 1
     ELSE balls_dropped' <= balls_dropped + 1]_vars

\* update_animation: the squared distance of a flight record to its target, as
\* the loop computes it from the clamped coordinates
DistanceSq(b) ==
  LET p == clamp_position(b.x, b.y)
      t == clamp_position(b.target_x, b.target_y)
  IN (t[1] - p[1]) * (t[1] - p[1]) + (t[2] - p[2]) * (t[2] - p[2])

\* the ball of record b has arrived in the step: it left the in-flight list or
\* moved on to the next row
ArrivedInStep(b) ==
  \A j \in 1..Len(balls_in_flight') :
    balls_in_flight'[j].ball_index = b.ball_index
      => balls_in_flight'[j].current_row = b.current_row + 1

\* C22: in a frame of an active run, a ball whose squared distance to its target
\* is at most step^2 arrives in that frame.  Stated as claimed; the code tests
\* distance_sq < step^2, so a ball exactly one step away only moves onto its
\* target and arrives a frame later.
C22_ArrivesWithinStep ==
  [][(AnimationActive(ball_falling, paused, stopped) /\ Tick)
       => \A i \in 1..Len(balls_in_flight) :
            DistanceSq(balls_in_flight[i])
                <= Px(EffectiveSpeed(ball_speed)) * Px(EffectiveSpeed(ball_speed))
              => ArrivedInStep(balls_in_flight[i])]_vars

\* the ball ids of a flight list, in list order
IdsOf(flight) == [i \in 1..Len(flight) |-> flight[i].ball_index]

\* the last value of the path of the ball of record b
FinalBin(b) == ball_paths[b.ball_index + 1][Len(ball_paths[b.ball_index + 1])]

\* the outcomes of the records of `flight` whose ball left the list, in list order
RECURSIVE OutcomesOfGone(_, _)
OutcomesOfGone(flight, stay) ==
  IF flight = <<>> THEN <<>>
  ELSE (IF Head(flight).ball_index \in stay THEN <<>> ELSE <<FinalBin(Head(flight))>>)
         \o OutcomesOfGone(Tail(flight), stay)

\* the ids of `ids` that are in `stay`, in list order
RECURSIVE StayingIds(_, _)
StayingIds(ids, stay) ==
  IF ids = <<>> THEN <<>>
  ELSE (IF Head(ids) \in stay THEN <<Head(ids)>> ELSE <<>>) \o StayingIds(Tail(ids), stay)

\* C23: in a frame of an active run every ball moves NotStarted -> InFlight ->
\* Completed.  The balls admitted carry the next unused ids and join the end of
\* the list; a ball leaves the list only from its last row, in the frame in which
\* its outcome, the last value of its path, is appended to the outcome list and
\* credited to that bin, once; the balls that stay keep their order and never go
\* back a row.
C23_BallLifecycle ==
  [][(AnimationActive(ball_falling, paused, stopped) /\ Tick)
       => LET stay == {balls_in_flight'[j].ball_index : j \in 1..Len(balls_in_flight')}
              gone == {i \in 1..Len(balls_in_flight) :
                         balls_in_flight[i].ball_index \notin stay}
              out == OutcomesOfGone(balls_in_flight, stay)
          IN /\ \A i \in gone : balls_in_flight[i].current_row = n_rows
             /\ positions' = positions \o out
             /\ balls_completed' = balls_completed + Cardinality(gone)
             /\ \A k \in 1..Len(bins_count) :
                  bins_count'[k] = bins_count[k]
                     + Cardinality({i \in gone : FinalBin(balls_in_flight[i]) = k - 1})
             /\ IdsOf(balls_in_flight') =
                  StayingIds(IdsOf(balls_in_flight), stay)
                    \o [n \in 1..(balls_dropped' - balls_dropped) |-> balls_dropped + n - 1]
             /\ \A i \in 1..Len(balls_in_flight) : \A j \in 1..Len(balls_in_flight') :
                  balls_in_flight'[j].ball_index = balls_in_flight[i].ball_index
                    => balls_in_flight'[j].current_row - balls_in_flight[i].current_row
                         \in {0, 1}]_vars

\* C23 witness: a running board where several balls have completed in one frame
\* and were removed from among the others, while a ball that stayed is past its
\* last peg row on the way to its bin.
C23_Witness ==
  /\ Running
  /\ balls_completed > 1
  /\ Len(balls_in_flight) > 0
  /\ balls_completed + Len(balls_in_flight) = n_balls
  /\ \E i \in 1..Len(balls_in_flight) :
       /\ balls_in_flight[i].current_row = n_rows
       /\ balls_in_flight[i].ball_index < n_balls - 1

\* C24: in every reachable state the histogram has n_rows + 1 bins, the peg
\* table holds exactly the pairs (row, col) with 0 <= col <= row < n_rows, and
\* the bin table holds exactly the bins 0 .. n_rows.
C24_RowStructuresConsistent ==
  /\ Len(bins_count) = n_rows + 1
  /\ DOMAIN peg_positions
       = {k \in (0..(n_rows - 1)) \X (0..n_rows) : 0 <= k[2] /\ k[2] <= k[1]}
  /\ DOMAIN bin_positions = 0..n_rows

\* C24 witness: a stopped run, balls still in flight on the old board, whose row
\* count was edited afterwards.
C24_Witness ==
  /\ stopped
  /\ n_rows # DefaultRows
  /\ Len(balls_in_flight) > 0
  /\ Len(ball_paths[1]) = DefaultRows

\* C25: the histogram is the tally of the outcome list: each bin counts the
\* outcomes equal to its index and the bins together count every outcome.
\* Stated as claimed; a row-count edit after a run truncates the histogram and
\* leaves the outcome list as it is.
C25_HistogramIsTally ==
  /\ \A k \in 1..Len(bins_count) :
       bins_count[k] = Cardinality({n \in 1..Len(positions) : positions[n] = k - 1})
  /\ SumSeq(bins_count) = Len(positions)

\* C26: paused is set only while a run is active.  Stated as claimed; stop
\* clears ball_falling and leaves paused set.
C26_PausedOnlyWhileActive == paused => ball_falling

\* C27: balls_completed never exceeds n_balls.  Stated as claimed; the ball-count
\* slider can be lowered under the count of a finished or stopped run.
C27_CompletedWithinBallCount == balls_completed <= n_balls

\* the admitted balls are the completed ones and those in flight, each once,
\* and no more were admitted than paths were generated at start
Conservation ==
  /\ balls_dropped = balls_completed + Len(balls_in_flight)
  /\ balls_dropped <= Len(ball_paths)
  /\ \A i \in 1..Len(balls_in_flight) :
       /\ balls_in_flight[i].ball_index \in 0..(balls_dropped - 1)
       /\ \A j \in 1..Len(balls_in_flight) :
            balls_in_flight[i].ball_index = balls_in_flight[j].ball_index => i = j

\* C28: ball conservation from start until the next reset: start establishes
\* it, and every step that is not a reset keeps it (frames, pause, stop, slider
\* edits, completion).
C28_BallConservation ==
  [][/\ ((~ball_falling /\ ball_falling') => Conservation')
     /\ ((Conservation /\ ~Reset) => Conservation')]_vars

\* C28 witness: a stopped run that had completed some balls, abandoned others in
\* flight and not yet admitted the rest.
C28_Witness ==
  /\ stopped /\ ~ball_falling
  /\ balls_completed > 0
  /\ Len(balls_in_flight) > 0
  /\ balls_dropped < Len(ball_paths)
  /\ Conservation

\* C29: while a run is active, every in-flight ball's id indexes an existing
\* path, every path has n_rows >= 1 entries, and the ball's row is at most
\* n_rows, so the reads path[current_row] (for current_row < n_rows) and
\* path[-1] of a frame are in range.
C29_PathReadsInRange ==
  ball_falling
    => /\ Len(ball_paths) = n_balls
       /\ n_rows >= 1
       /\ \A b \in 1..Len(ball_paths) : Len(ball_paths[b]) = n_rows
       /\ \A i \in 1..Len(balls_in_flight) :
            /\ balls_in_flight[i].ball_index \in 0..(Len(ball_paths) - 1)
            /\ balls_in_flight[i].current_row \in 0..n_rows

\* C29 witness: a run started anew after a stopped run and a row-count edit; the
\* last ball is in flight on its last row.
C29_Witness ==
  /\ ball_falling
  /\ n_rows # DefaultRows
  /\ \E i \in 1..Len(balls_in_flight) :
       /\ balls_in_flight[i].ball_index = n_balls - 1
       /\ balls_in_flight[i].current_row = n_rows

====
